---- MODULE Spec2Model ----
(***************************************************************************)
(* Placement engine of blender_terrain_gen: the Poisson-disk sampler of    *)
(* utils/placement.py, the slope filter, the collision helpers and the     *)
(* CollisionManager of utils/collision.py, and the seeding done by the     *)
(* generate operator.                                                      *)
(*                                                                         *)
(* Coordinates are exact numbers on an integer lattice (one lattice unit   *)
(* is an arbitrary length), so every comparison the code makes on reals is *)
(* made here on integers: a distance test d < m is dx^2 + dy^2 < m^2, and  *)
(* int(v / cell_size) with cell_size = min_distance / sqrt(2) is the       *)
(* largest k with k^2 * min_distance^2 <= 2 * v^2.  Floating-point         *)
(* rounding is not modelled.                                               *)
(***************************************************************************)
EXTENDS Integers, Sequences, FiniteSets, TLC

\* ------------------------------------------------------------------ bounds
MaxWidth == 9
MaxHeight == 2
MaxDist == 6
MaxAttempts == 1
\* non-positive parameter values reach down to -NegRange
NegRange == 1
\* valid configurations are those whose grid has at most MaxCells cells and whose
\* domain has an area of at most MaxArea lattice squares
MaxCells == 4
MaxArea == 9
\* seeded runs: props.random_seed is 0 or MaxSeed, the domain has an area of at
\* most SeededArea lattice squares and max_attempts is at most SeededAttempts
MaxSeed == 1
SeededArea == 2
SeededAttempts == 1
\* collision helpers: positions are the lattice points on the three axes with
\* coordinates in 0..MaxCoord, radii are in 0..MaxRadius, lists hold at most MaxObjects
MaxCoord == 1
MaxRadius == 1
MaxObjects == 2
\* bounding boxes have corners with whole coordinates in 0..MaxExtent
MaxExtent == 2
\* the squared components of a normal are in 0..MaxSquare quarters
MaxSquare == 5

\* ---------------------------------------------------------------- variables
VARIABLES
    \* generate_poisson_disk_samples: arguments and locals
    width, height, min_distance, max_attempts,
    grid_width, grid_height, grid, points, active_list,
    idx, attempt,
    pc,        \* position in the function: "idle", "entry", "loop", "attempt", "done", "error"
    error,     \* the exception that ended the call, "" when none
    drawn,     \* whether this call has taken a value from the random source
    iters,     \* number of iterations of the while loop started
    checked,   \* whether the candidate of the last pass of the for loop of the
               \* current pick was handed to is_valid_point
    \* the random module and the operator that seeds it
    random_seed,   \* props.random_seed
    rng_stream,    \* the seed the generator was last seeded with, 0 when never seeded
    rng_pos,       \* number of values taken since it was seeded
    stream,        \* the values of stream random_seed taken so far, in order
    seed_calls,    \* number of random.seed calls made by the last execute
    run,           \* number of the generation run
    first_points,  \* the points the first run returned
    \* CollisionManager
    objects,       \* self.objects
    adds,          \* number of add_object calls since construction or the last clear
    gated,         \* every add_object so far followed a check_collision of the same
                   \* position and radius that returned False
    \* the last call made and what it returned
    call, result

samplerVars == <<width, height, min_distance, max_attempts, grid_width, grid_height,
                 grid, points, active_list, idx, attempt, pc, error, drawn, iters,
                 checked>>

rngVars == <<rng_stream, rng_pos, stream>>

runVars == <<random_seed, seed_calls, run, first_points>>

managerVars == <<objects, adds, gated>>

callVars == <<call, result>>

vars == <<samplerVars, rngVars, runVars, managerVars, callVars>>

\* ------------------------------------------------------------ number helpers
None == <<>>

Abs(v) == IF v < 0 THEN 0 - v ELSE v

Min2(a, b) == IF a < b THEN a ELSE b

Max2(a, b) == IF a > b THEN a ELSE b

\* floor(a * sqrt(2) / b) for a >= 0, b > 0
FloorSqrt2(a, b) ==
    CHOOSE k \in 0..((2 * a) \div b) :
        k * k * b * b <= 2 * a * a /\ (k + 1) * (k + 1) * b * b > 2 * a * a

\* int(v / cell_size) where cell_size = md / 2 ** 0.5 and md # 0; Python's int()
\* truncates toward zero
CellIndex(v, md) ==
    IF (v >= 0) = (md > 0)
    THEN FloorSqrt2(Abs(v), Abs(md))
    ELSE 0 - FloorSqrt2(Abs(v), Abs(md))

\* Python list indexing: the position read by lst[i] for a list of length n,
\* or -1 when the access raises IndexError
PyIndex(i, n) ==
    IF 0 <= i /\ i < n THEN i
    ELSE IF 0 - n <= i /\ i < 0 THEN i + n
    ELSE 0 - 1

\* random.uniform(a, b): a value N with a <= N <= b, or b <= N <= a when b < a
Uniform(a, b) == IF a <= b THEN a..b ELSE b..a

\* squared length of the difference of two points
Dist2(p, q) == (p[1] - q[1]) * (p[1] - q[1]) + (p[2] - q[2]) * (p[2] - q[2])

\* (p - q).length < m
CloserThan(p, q, m) == m > 0 /\ Dist2(p, q) < m * m

\* a pop that leaves the list as it is
RemoveNothing(s, i) == s

\* s.pop(): the list without its last element
RemoveLast(s, i) == SubSeq(s, 1, Len(s) - 1)

\* s.pop(i - 1): the list without its i-th element
Remove(s, i) == [k \in 1..(Len(s) - 1) |-> IF k < i THEN s[k] ELSE s[k + 1]]

\* ---------------------------------------------------------------- sampler
\* the grid built by the list comprehension: range(n) is empty for n <= 0
NewGrid(gw, gh) == [c \in (0..(gw - 1)) \X (0..(gh - 1)) |-> None]

\* grid[gx][gy] = p: the cell written, or <<-1, -1>> when an index is out of range
GridSlot(gx, gy, gw, gh) ==
    LET i == PyIndex(gx, Max2(gw, 0))
        j == PyIndex(gy, Max2(gh, 0))
    IN  IF i < 0 \/ j < 0 THEN <<0 - 1, 0 - 1>> ELSE <<i, j>>

\* is_valid_point looking one cell around the candidate's cell instead of two
is_valid_point_near(point, g, md, gw, gh) ==
    LET grid_x == CellIndex(point[1], md)
        grid_y == CellIndex(point[2], md)
    IN  \A i \in Max2(0, grid_x - 1)..(Min2(gw, grid_x + 2) - 1) :
          \A j \in Max2(0, grid_y - 1)..(Min2(gh, grid_y + 2) - 1) :
            g[<<i, j>>] # None => ~CloserThan(point, g[<<i, j>>], md)

\* is_valid_point passing over the candidate's own cell
is_valid_point_others(point, g, md, gw, gh) ==
    LET grid_x == CellIndex(point[1], md)
        grid_y == CellIndex(point[2], md)
    IN  \A i \in Max2(0, grid_x - 2)..(Min2(gw, grid_x + 3) - 1) :
          \A j \in Max2(0, grid_y - 2)..(Min2(gh, grid_y + 3) - 1) :
            (<<i, j>> # <<grid_x, grid_y>> /\ g[<<i, j>>] # None)
                => ~CloserThan(point, g[<<i, j>>], md)

is_valid_point(point, g, md, gw, gh) ==
    LET grid_x == CellIndex(point[1], md)
        grid_y == CellIndex(point[2], md)
    IN  \A i \in Max2(0, grid_x - 2)..(Min2(gw, grid_x + 3) - 1) :
          \A j \in Max2(0, grid_y - 2)..(Min2(gh, grid_y + 3) - 1) :
            g[<<i, j>>] # None => ~CloserThan(point, g[<<i, j>>], md)

\* the configurations explored: every parameter combination within the bounds
\* whose grid and domain, when all three sizes are positive, are within MaxCells
\* and MaxArea
Valid(w, h, md) == w > 0 /\ h > 0 /\ md > 0

Cells(w, h, md) == (CellIndex(w, md) + 1) * (CellIndex(h, md) + 1)

Configs ==
    {c \in ((0 - NegRange)..MaxWidth) \X ((0 - NegRange)..MaxHeight) \X ((0 - NegRange)..MaxDist) :
        Valid(c[1], c[2], c[3]) =>
            Cells(c[1], c[2], c[3]) <= MaxCells /\ c[1] * c[2] <= MaxArea}

\* the state of a call about to start with arguments c and m
SamplerEntry(c, m) ==
    /\ width = c[1] /\ height = c[2] /\ min_distance = c[3]
    /\ max_attempts = m
    /\ grid_width = 0 /\ grid_height = 0
    /\ grid = NewGrid(0, 0)
    /\ points = <<>> /\ active_list = <<>>
    /\ idx = 0 /\ attempt = 0
    /\ pc = "entry" /\ error = "" /\ drawn = FALSE /\ iters = 0
    /\ checked = FALSE

\* the parts of the state a specification does not exercise
RngIdle == rng_stream = 0 /\ rng_pos = 0 /\ stream = <<>>

RunIdle == random_seed = 0 /\ seed_calls = 0 /\ run = 1 /\ first_points = <<>>

ManagerIdle == objects = <<>> /\ adds = 0 /\ gated = TRUE

CallIdle == call = <<>> /\ result = None

SamplerIdle == SamplerEntry(<<1, 1, 1>>, 0)

SamplerInit ==
    /\ \E c \in Configs, m \in 0..MaxAttempts : SamplerEntry(c, m)
    /\ RngIdle /\ RunIdle /\ ManagerIdle /\ CallIdle

\* a value v is taken from the random module.  A generator that was never seeded
\* gives any value; after random.seed(s) the values are those of stream s, the
\* same ones every time that stream is replayed.
Rng(v) ==
    IF rng_stream = 0
    THEN UNCHANGED rngVars
    ELSE /\ rng_stream' = rng_stream
         /\ rng_pos' = rng_pos + 1
         /\ IF rng_pos < Len(stream)
            THEN v = stream[rng_pos + 1] /\ stream' = stream
            ELSE stream' = Append(stream, v)

\* lines 23-24 without the + 1
GridSizeExact(v, md) == CellIndex(v, md)

\* lines 23-24: int(v / cell_size) + 1
GridSize(v, md) == CellIndex(v, md) + 1

\* lines 22-24: cell_size = min_distance / 2 ** 0.5 is 0.0 for min_distance = 0 and
\* the division by it raises
SetupFails ==
    /\ pc = "entry" /\ min_distance = 0
    /\ pc' = "error" /\ error' = "ZeroDivisionError"
    /\ UNCHANGED <<width, height, min_distance, max_attempts, grid_width, grid_height,
                   grid, points, active_list, idx, attempt, drawn, iters, checked>>

\* lines 22-37 with the seed point (x, y) drawn by the two random.uniform calls
Seed(x, y) ==
    /\ pc = "entry" /\ min_distance # 0
    /\ LET gw == GridSize(width, min_distance)
           gh == GridSize(height, min_distance)
           first_point == <<x, y>>
           slot == GridSlot(CellIndex(x, min_distance), CellIndex(y, min_distance), gw, gh)
       IN  /\ grid_width' = gw /\ grid_height' = gh
           /\ points' = <<first_point>>
           /\ active_list' = <<first_point>>
           /\ drawn' = TRUE
           /\ IF slot[1] < 0
              THEN /\ grid' = NewGrid(gw, gh)
                   /\ pc' = "error" /\ error' = "IndexError"
              ELSE /\ grid' = [NewGrid(gw, gh) EXCEPT ![slot] = first_point]
                   /\ pc' = "loop" /\ error' = ""
    /\ UNCHANGED <<width, height, min_distance, max_attempts, idx, attempt, iters,
                   checked>>

\* lines 39-42: the loop test succeeds and index i is drawn by random.randint
Pick(i) ==
    /\ pc = "loop" /\ active_list # <<>>
    /\ i \in 1..Len(active_list)
    /\ idx' = i /\ attempt' = 0 /\ pc' = "attempt"
    /\ drawn' = TRUE /\ iters' = iters + 1
    /\ checked' = FALSE
    /\ UNCHANGED <<width, height, min_distance, max_attempts, grid_width, grid_height,
                   grid, points, active_list, error>>

\* line 51 without the lower bounds
InBoundsBelow(p, w, h) == p[1] < w /\ p[2] < h

\* line 51: 0 <= new_x < width and 0 <= new_y < height
InBounds(p, w, h) == 0 <= p[1] /\ p[1] < w /\ 0 <= p[2] /\ p[2] < h

\* lines 44-62: one pass of the for loop; (dx, dy) = (radius * u1, radius * u2) is the
\* offset made of the drawn radius in [min_distance, 2 min_distance] and u1, u2 in
\* [-1, 1] (the angle drawn first is not used)
Attempt(dx, dy) ==
    /\ pc = "attempt" /\ attempt < max_attempts
    /\ Len(points) <= MaxCells
    /\ drawn' = TRUE
    /\ LET point == active_list[idx]
           new_point == <<point[1] + dx, point[2] + dy>>
           in_domain == InBounds(new_point, width, height)
           slot == GridSlot(CellIndex(new_point[1], min_distance),
                            CellIndex(new_point[2], min_distance), grid_width, grid_height)
       IN  /\ checked' = in_domain
           /\ IF in_domain
                 /\ is_valid_point(new_point, grid, min_distance, grid_width, grid_height)
              THEN /\ points' = Append(points, new_point)
                   /\ active_list' = Append(active_list, new_point)
                   /\ attempt' = attempt
                   /\ IF slot[1] < 0
                      THEN /\ grid' = grid /\ pc' = "error" /\ error' = "IndexError"
                      ELSE /\ grid' = [grid EXCEPT ![slot] = new_point]
                           /\ pc' = "loop" /\ error' = ""
              ELSE /\ attempt' = attempt + 1
                   /\ UNCHANGED <<points, active_list, grid, pc, error>>
    /\ UNCHANGED <<width, height, min_distance, max_attempts, grid_width, grid_height,
                   idx, iters>>

\* lines 64-65: the for loop ran out without a break, the source point is popped
Exhaust ==
    /\ pc = "attempt" /\ attempt = max_attempts
    /\ active_list' = Remove(active_list, idx)
    /\ pc' = "loop"
    /\ checked' = FALSE
    /\ UNCHANGED <<width, height, min_distance, max_attempts, grid_width, grid_height,
                   grid, points, idx, attempt, error, drawn, iters>>

\* lines 39, 67: the active list is empty, the points are returned
Return ==
    /\ pc = "loop" /\ active_list = <<>>
    /\ pc' = "done"
    /\ UNCHANGED <<width, height, min_distance, max_attempts, grid_width, grid_height,
                   grid, points, active_list, idx, attempt, error, drawn, iters, checked>>

\* the offsets radius * u can take
Offsets == Uniform(0 - 2 * Abs(min_distance), 2 * Abs(min_distance))

DrawSeed ==
    /\ \E x \in Uniform(0, width), y \in Uniform(0, height) :
          Seed(x, y) /\ Rng(<<"seed", x, y>>)
    /\ UNCHANGED <<runVars, managerVars, callVars>>

DrawPick ==
    /\ \E i \in 1..Len(active_list) : Pick(i) /\ Rng(<<"pick", i>>)
    /\ UNCHANGED <<runVars, managerVars, callVars>>

\* the candidate of offset o from the picked point lies in [0, width) x [0, height)
Lands(o) ==
    /\ 0 <= active_list[idx][1] + o[1] /\ active_list[idx][1] + o[1] < width
    /\ 0 <= active_list[idx][2] + o[2] /\ active_list[idx][2] + o[2] < height

\* the largest offsets
Corners == {0 - 2 * Abs(min_distance), 2 * Abs(min_distance)}

\* every pair of offsets is a possible draw.  The offsets whose candidate lies
\* outside the domain all lead to the same step, so one of them stands for all;
\* the domain is a rectangle, so some offset lands outside exactly if a largest
\* one does.
DrawAttempt ==
    /\ pc = "attempt"
    /\ \/ \E x \in 0..(width - 1), y \in 0..(height - 1) :
             /\ x - active_list[idx][1] \in Offsets
             /\ y - active_list[idx][2] \in Offsets
             /\ Attempt(x - active_list[idx][1], y - active_list[idx][2])
             /\ Rng(<<"attempt", x - active_list[idx][1], y - active_list[idx][2]>>)
       \/ LET outside == {o \in Corners \X Corners : ~Lands(o)}
          IN  /\ outside # {}
              /\ LET o == CHOOSE o \in outside : TRUE
                 IN  Attempt(o[1], o[2]) /\ Rng(<<"attempt", o[1], o[2]>>)
    /\ UNCHANGED <<runVars, managerVars, callVars>>

otherVars == <<rngVars, runVars, managerVars, callVars>>

SetupFailsStep == SetupFails /\ UNCHANGED otherVars

ExhaustStep == Exhaust /\ UNCHANGED otherVars

ReturnStep == Return /\ UNCHANGED otherVars

SamplerNext ==
    \/ SetupFailsStep
    \/ DrawSeed
    \/ DrawPick
    \/ DrawAttempt
    \/ ExhaustStep
    \/ ReturnStep

Spec == SamplerInit /\ [][SamplerNext]_vars

\* ------------------------------------------------------------ generation run
\* TERRAIN_OT_generate_terrain.execute seeds the random module; the placement steps
\* it lists are not written yet.  A generation run here is execute followed by
\* one call of the sampler with the run's parameters.

\* the test of line 19 with an off-by-one threshold
ShouldSeedAboveOne(seed) == seed > 1

\* line 19: if props.random_seed > 0
ShouldSeed(seed) == seed > 0

\* the configurations of the seeded runs
SeededConfigs ==
    {c \in Configs : Valid(c[1], c[2], c[3]) /\ c[1] * c[2] <= SeededArea}

SeededInit ==
    /\ \E c \in SeededConfigs, m \in 0..SeededAttempts :
          /\ width = c[1] /\ height = c[2] /\ min_distance = c[3]
          /\ max_attempts = m
    /\ grid_width = 0 /\ grid_height = 0
    /\ grid = NewGrid(0, 0)
    /\ points = <<>> /\ active_list = <<>>
    /\ idx = 0 /\ attempt = 0
    /\ pc = "idle" /\ error = "" /\ drawn = FALSE /\ iters = 0
    /\ checked = FALSE
    /\ random_seed \in {0, MaxSeed}
    /\ seed_calls = 0 /\ run = 1 /\ first_points = <<>>
    /\ RngIdle /\ ManagerIdle /\ CallIdle

\* execute, lines 15-32, and the start of the sampler call
Execute ==
    /\ pc = "idle"
    /\ IF ShouldSeed(random_seed)
       THEN /\ rng_stream' = random_seed /\ rng_pos' = 0 /\ stream' = stream
            /\ seed_calls' = 1
       ELSE /\ UNCHANGED rngVars
            /\ seed_calls' = 0
    /\ pc' = "entry"
    /\ UNCHANGED <<width, height, min_distance, max_attempts, grid_width, grid_height,
                   grid, points, active_list, idx, attempt, error, drawn, iters,
                   checked, random_seed, run, first_points, managerVars, callVars>>

\* the first run has returned; the second starts with the same parameters
SecondRun ==
    /\ pc = "done" /\ run = 1
    /\ first_points' = points /\ run' = 2
    /\ grid_width' = 0 /\ grid_height' = 0
    /\ grid' = NewGrid(0, 0)
    /\ points' = <<>> /\ active_list' = <<>>
    /\ idx' = 0 /\ attempt' = 0
    /\ pc' = "idle" /\ error' = "" /\ drawn' = FALSE /\ iters' = 0
    /\ checked' = FALSE
    /\ UNCHANGED <<width, height, min_distance, max_attempts, random_seed, seed_calls,
                   rngVars, managerVars, callVars>>

SeededNext ==
    \/ Execute
    \/ SecondRun
    \/ DrawSeed
    \/ DrawPick
    \/ DrawAttempt
    \/ ExhaustStep
    \/ ReturnStep

SeededSpec == SeededInit /\ [][SeededNext]_vars

\* -------------------------------------------------------- collision helpers
Positions ==
    {p \in (0..MaxCoord) \X (0..MaxCoord) \X (0..MaxCoord) :
        Cardinality({a \in 1..3 : p[a] # 0}) <= 1}

Radii == 0..MaxRadius

\* squared length of the difference of two 3D vectors
Length2(p, q) ==
    (p[1] - q[1]) * (p[1] - q[1]) + (p[2] - q[2]) * (p[2] - q[2])
        + (p[3] - q[3]) * (p[3] - q[3])

\* line 22 comparing with <= instead of <
SphereTouchesOrHits(position, radius, obj) ==
    Length2(position, obj[1]) <= (radius + obj[2]) * (radius + obj[2])

\* line 22 leaving out the radius of the tracked object
SphereHitsOwnRadius(position, radius, obj) ==
    /\ radius > 0
    /\ Length2(position, obj[1]) < radius * radius

\* lines 21-22: (position - obj_pos).length < radius + obj_radius
SphereHits(position, radius, obj) ==
    /\ radius + obj[2] > 0
    /\ Length2(position, obj[1]) < (radius + obj[2]) * (radius + obj[2])

\* lines 20-24: the loop over existing_objects, from entry k on
RECURSIVE SphereLoop(_, _, _, _)
SphereLoop(position, radius, existing_objects, k) ==
    IF k > Len(existing_objects) THEN FALSE
    ELSE IF SphereHits(position, radius, existing_objects[k]) THEN TRUE
    ELSE SphereLoop(position, radius, existing_objects, k + 1)

check_collision_sphere(position, radius, existing_objects) ==
    SphereLoop(position, radius, existing_objects, 1)

ManagerInit ==
    /\ objects = <<>> /\ adds = 0 /\ gated = TRUE
    /\ call = <<"__init__">> /\ result = None
    /\ SamplerIdle /\ RngIdle /\ RunIdle

managerFrame == <<samplerVars, rngVars, runVars>>

\* add_object keeping an entry out of the list when it collides with a tracked one
add_object_checked(position, radius) ==
    /\ Len(objects) < MaxObjects
    /\ objects' = IF check_collision_sphere(position, radius, objects)
                  THEN objects
                  ELSE Append(objects, <<position, radius>>)
    /\ adds' = adds + 1
    /\ gated' = (gated /\ call = <<"check_collision", position, radius>> /\ result = FALSE)
    /\ call' = <<"add_object">> /\ result' = None
    /\ UNCHANGED managerFrame

\* CollisionManager.add_object, lines 97-99
add_object(position, radius) ==
    /\ Len(objects) < MaxObjects
    /\ objects' = Append(objects, <<position, radius>>)
    /\ adds' = adds + 1
    /\ gated' = (gated /\ call = <<"check_collision", position, radius>> /\ result = FALSE)
    /\ call' = <<"add_object">> /\ result' = None
    /\ UNCHANGED managerFrame

\* CollisionManager.check_collision, lines 101-103
check_collision(position, radius) ==
    /\ call' = <<"check_collision", position, radius>>
    /\ result' = check_collision_sphere(position, radius, objects)
    /\ UNCHANGED <<objects, adds, gated, managerFrame>>

\* CollisionManager.clear, lines 105-107
clear ==
    /\ objects' = <<>>
    /\ adds' = 0 /\ gated' = TRUE
    /\ call' = <<"clear">> /\ result' = None
    /\ UNCHANGED managerFrame

\* CollisionManager.get_count, lines 109-111
get_count ==
    /\ call' = <<"get_count">>
    /\ result' = Len(objects)
    /\ UNCHANGED <<objects, adds, gated, managerFrame>>

CallAddObject == \E p \in Positions, r \in Radii : add_object(p, r)

CallCheckCollision == \E p \in Positions, r \in Radii : check_collision(p, r)

ManagerNext ==
    \/ CallAddObject
    \/ CallCheckCollision
    \/ clear
    \/ get_count

ManagerSpec == ManagerInit /\ [][ManagerNext]_vars

\* the frame of the specifications that call one function on drawn arguments
pureFrame == <<samplerVars, rngVars, runVars, managerVars>>

PureIdle == SamplerIdle /\ RngIdle /\ RunIdle /\ ManagerIdle

\* the bounding-box sizes tried: per axis the sums of two sizes give an overlap,
\* an exact touch and a gap at the distances the positions have
BoxSizes == {<<2, 0, 1>>, <<0, 2, 1>>}

BoxEntries == Positions \X BoxSizes

\* the lists of at most n entries drawn from set S
RECURSIVE ListsUpTo(_, _)
ListsUpTo(S, n) ==
    IF n = 0 THEN {<<>>}
    ELSE LET shorter == ListsUpTo(S, n - 1)
         IN  shorter \cup {Append(l, e) : l \in {x \in shorter : Len(x) = n - 1}, e \in S}

\* |a - b| < sa / 2 + sb / 2 for centres a, b and sizes sa, sb on one axis
AxisOverlap(a, b, sa, sb) == 2 * Abs(a - b) < sa + sb

\* the test of lines 45-47 without the z axis
BoxHitsFlat(position, bbox_size, obj) ==
    /\ AxisOverlap(position[1], obj[1][1], bbox_size[1], obj[2][1])
    /\ AxisOverlap(position[2], obj[1][2], bbox_size[2], obj[2][2])

\* lines 39-47: half_size = bbox_size / 2, obj_half = obj_bbox / 2 and the test
BoxHits(position, bbox_size, obj) ==
    /\ AxisOverlap(position[1], obj[1][1], bbox_size[1], obj[2][1])
    /\ AxisOverlap(position[2], obj[1][2], bbox_size[2], obj[2][2])
    /\ AxisOverlap(position[3], obj[1][3], bbox_size[3], obj[2][3])

\* lines 41-50: the loop over existing_objects, from entry k on
RECURSIVE BoxLoop(_, _, _, _)
BoxLoop(position, bbox_size, existing_objects, k) ==
    IF k > Len(existing_objects) THEN FALSE
    ELSE IF BoxHits(position, bbox_size, existing_objects[k]) THEN TRUE
    ELSE BoxLoop(position, bbox_size, existing_objects, k + 1)

check_collision_bbox(position, bbox_size, existing_objects) ==
    BoxLoop(position, bbox_size, existing_objects, 1)

BBoxInit ==
    /\ \E p \in Positions, b \in BoxSizes, l \in ListsUpTo(BoxEntries, MaxObjects) :
          call = <<"arguments", p, b, l>>
    /\ result = None
    /\ PureIdle

CallCheckCollisionBBox ==
    /\ call[1] = "arguments"
    /\ call' = <<"check_collision_bbox", call[2], call[3], call[4]>>
    /\ result' = check_collision_bbox(call[2], call[3], call[4])
    /\ UNCHANGED pureFrame

BBoxNext == CallCheckCollisionBBox

BBoxSpec == BBoxInit /\ [][BBoxNext]_vars

\* ------------------------------------------------------------ object bounds
\* Lengths are in half units here, so that the halving of a whole extent is exact:
\* a corner coordinate is 2 * k for a whole k.
SetMax(S) == CHOOSE v \in S : \A u \in S : u <= v

SetMin(S) == CHOOSE v \in S : \A u \in S : v <= u

\* the eight corners obj.bound_box of the box from lo to hi
BoundBox(lo, hi) == {<<x, y, z>> : x \in {lo[1], hi[1]}, y \in {lo[2], hi[2]}, z \in {lo[3], hi[3]}}

Extents == {2 * k : k \in 0..MaxExtent}

Objects ==
    {[type |-> t, bound_box |-> BoundBox(lo, hi)] :
        t \in {"MESH", "EMPTY"},
        lo \in Extents \X Extents \X Extents,
        hi \in Extents \X Extents \X Extents}

\* Vector((1, 1, 1)) and the radii 1.0 in half units
DefaultSize == <<2, 2, 2>>

\* collision.py get_object_bounds, lines 63-72
get_object_bounds(obj) ==
    IF obj.type = "MESH"
    THEN LET bbox == obj.bound_box
         IN  <<SetMax({v[1] : v \in bbox}) - SetMin({v[1] : v \in bbox}),
               SetMax({v[2] : v \in bbox}) - SetMin({v[2] : v \in bbox}),
               SetMax({v[3] : v \in bbox}) - SetMin({v[3] : v \in bbox})>>
    ELSE DefaultSize

\* collision.py get_object_radius, lines 85-86
get_object_radius(obj) ==
    LET bounds == get_object_bounds(obj)
    IN  SetMax({bounds[1], bounds[2], bounds[3]}) \div 2

\* asset_manager.py AssetMetadata._calculate_radius, lines 34-39
calculate_radius(obj) ==
    IF obj.type = "MESH"
    THEN LET bbox == obj.bound_box
             x_size == SetMax({v[1] : v \in bbox}) - SetMin({v[1] : v \in bbox})
             y_size == SetMax({v[2] : v \in bbox}) - SetMin({v[2] : v \in bbox})
         IN  SetMax({x_size, y_size}) \div 2
    ELSE 2

BoundsInit ==
    /\ \E obj \in Objects : call = <<"arguments", obj>>
    /\ result = None
    /\ PureIdle

CallGetObjectRadius ==
    /\ call[1] = "arguments"
    /\ call' = <<"get_object_radius", call[2]>>
    /\ result' = get_object_radius(call[2])
    /\ UNCHANGED pureFrame

CallCalculateRadius ==
    /\ call[1] = "arguments"
    /\ call' = <<"_calculate_radius", call[2]>>
    /\ result' = calculate_radius(call[2])
    /\ UNCHANGED pureFrame

BoundsNext ==
    \/ CallGetObjectRadius
    \/ CallCalculateRadius

BoundsSpec == BoundsInit /\ [][BoundsNext]_vars

\* ------------------------------------------------------------- slope filter
\* A normal (x, y, z) is held as the sign of z and the squares z2 = z^2 and
\* h2 = x^2 + y^2, both in quarters, so that the normals at 30, 45 and 60 degrees
\* from the up axis are exact: a unit normal has z2 + h2 = 4.  An angle in
\* [0, 180] degrees is held as its cosine, again as a sign and a square in
\* quarters.
Normals == [sign : {0 - 1, 1}, z2 : 0..MaxSquare, h2 : 0..MaxSquare]

\* the values of max_slope_degrees tried
Degrees == {0 - 30, 0, 30, 45, 60, 90, 120, 135, 150, 180, 210}

\* 4 * cos(deg)^2 for the angles of Degrees within [0, 180]
Cos4(deg) ==
    CASE deg \in {0, 180} -> 4
      [] deg \in {30, 150} -> 3
      [] deg \in {45, 135} -> 2
      [] deg \in {60, 120} -> 1
      [] deg = 90 -> 0

\* the cosine held as c is >= 0
NonNegative(c) == c.sign = 1 \/ c.sq = 0

\* line 116 with < instead of <=
AngleBelow(angle, deg) ==
    IF deg <= 0 THEN FALSE
    ELSE IF deg > 180 THEN TRUE
    ELSE IF deg <= 90 THEN NonNegative(angle) /\ angle.sq > Cos4(deg)
    ELSE NonNegative(angle) \/ angle.sq < Cos4(deg)

\* line 116: slope <= max_slope_degrees, for the angle whose cosine is given:
\* acos is decreasing, so the test is cosine >= cos(max_slope_degrees)
AngleAtMost(angle, deg) ==
    IF deg < 0 THEN FALSE
    ELSE IF deg >= 180 THEN TRUE
    ELSE IF deg <= 90 THEN NonNegative(angle) /\ angle.sq >= Cos4(deg)
    ELSE NonNegative(angle) \/ angle.sq <= Cos4(deg)

\* lines 99-101: up = (0, 0, 1), so normal.dot(up) is z, clamped to [-1, 1]
calculate_slope_angle(normal) == [sign |-> normal.sign, sq |-> Min2(normal.z2, 4)]

\* lines 115-116
is_valid_slope(normal, max_slope_degrees) ==
    AngleAtMost(calculate_slope_angle(normal), max_slope_degrees)

SlopeInit ==
    /\ \E n \in Normals, deg \in Degrees : call = <<"arguments", n, deg>>
    /\ result = None
    /\ PureIdle

CallIsValidSlope ==
    /\ call[1] = "arguments"
    /\ call' = <<"is_valid_slope", call[2], call[3]>>
    /\ result' = is_valid_slope(call[2], call[3])
    /\ UNCHANGED pureFrame

SlopeNext == CallIsValidSlope

SlopeSpec == SlopeInit /\ [][SlopeNext]_vars

\* ------------------------------------------------------------ sampler claims
ValidConfig == Valid(width, height, min_distance)

NumCells == Cells(width, height, min_distance)

InDomain(p) == 0 <= p[1] /\ p[1] < width /\ 0 <= p[2] /\ p[2] < height

\* C1: with width, height, min_distance > 0, in every state of the sampling loop
\* any two distinct entries of the output list are at distance >= min_distance.
C1_Spacing ==
    ValidConfig =>
        \A i \in 1..Len(points) : \A j \in 1..Len(points) :
            i < j => Dist2(points[i], points[j]) >= min_distance * min_distance

\* a finished run that returned two points in grid cells two columns apart and
\* closer than 2 * min_distance
C1_Witness ==
    /\ ValidConfig /\ pc = "done" /\ Len(points) >= 2
    /\ \E i \in 1..Len(points) : \E j \in 1..Len(points) :
          /\ CellIndex(points[j][1], min_distance) = CellIndex(points[i][1], min_distance) + 2
          /\ Dist2(points[i], points[j]) < 4 * min_distance * min_distance

\* C2: every point of the output list, the seed point included, lies in
\* [0, width) x [0, height).
C2_Bounded == ValidConfig => \A i \in 1..Len(points) : InDomain(points[i])

\* C4 (original bound): the number of loop iterations is at most the number of
\* grid cells.
C4_IterationsWithinCells == ValidConfig => iters <= NumCells

\* one iteration of the while loop, from the pick to the return to the loop test
IterationStep ==
    (ValidConfig /\ pc = "attempt" /\ pc' = "loop") =>
        \/ /\ \E p \in (0..(width - 1)) \X (0..(height - 1)) :
                 /\ points' = Append(points, p)
                 /\ active_list' = Append(active_list, p)
                 /\ \E c \in DOMAIN grid :
                       grid[c] = None /\ grid' = [grid EXCEPT ![c] = p]
        \/ /\ points' = points /\ grid' = grid
           /\ Len(active_list') = Len(active_list) - 1

\* what is left to do: twice the empty cells plus the active points, then the
\* steps left within the current iteration
Variant ==
    LET left == IF pc = "entry" THEN 2 * NumCells + 1
                ELSE 2 * (NumCells - Len(points)) + Len(active_list)
        inner == CASE pc \in {"entry", "loop"} -> max_attempts + 2
                   [] pc = "attempt" -> max_attempts - attempt + 1
                   [] OTHER -> 0
    IN  left * (max_attempts + 3) + inner

\* C4 (amended): with width, height, min_distance > 0 and any max_attempts >= 0
\* the call returns whatever is drawn: until it has returned a step is always
\* possible, and every step lowers a variant that is never negative.  Every
\* iteration either adds one point into an empty grid cell or removes one point
\* from the active list, and the number of iterations is at most
\* 2 * (number of grid cells) - 1.
C4_Termination ==
    /\ [](ValidConfig => (pc = "done" \/ ENABLED SamplerNext))
    /\ [](ValidConfig => Variant >= 0)
    /\ [][ValidConfig => Variant' < Variant]_vars
    /\ [](ValidConfig => iters <= 2 * NumCells - 1)
    /\ [][IterationStep]_vars

\* a finished run with more iterations than grid cells
C4_Witness == ValidConfig /\ pc = "done" /\ iters > NumCells /\ Len(points) >= 2

\* C6: a call with min_distance <= 0, width <= 0 or height <= 0 is rejected
\* before any random draw and before any output, grid or frontier state exists;
\* it never returns.
C6_RejectedAtEntry ==
    ~ValidConfig =>
        /\ pc \in {"entry", "error"}
        /\ ~drawn
        /\ points = <<>> /\ active_list = <<>>

\* C5: two runs with the same non-zero seed and the same parameters return the
\* same points in the same order; execute seeds the random module exactly once
\* when the seed is non-zero and not at all when it is 0.
C5_Determinism ==
    /\ (run = 2 /\ pc = "done" /\ random_seed # 0) => points = first_points
    /\ pc # "idle" => seed_calls = (IF random_seed # 0 THEN 1 ELSE 0)
    /\ random_seed = 0 => rng_stream = 0

\* a second seeded run that returned several points
C5_Witness ==
    /\ run = 2 /\ pc = "done" /\ random_seed # 0
    /\ Len(points) >= 2 /\ seed_calls = 1

\* the cell (floor(p.x / cell_size), floor(p.y / cell_size)) of a point with
\* non-negative coordinates, cell_size being min_distance / sqrt(2)
FloorCell(p) == <<FloorSqrt2(p[1], min_distance), FloorSqrt2(p[2], min_distance)>>

\* the sampler has placed its seed point and has not failed
Sampling == ValidConfig /\ pc \in {"loop", "attempt", "done"}

InDomainCandidates == (0..(width - 1)) \X (0..(height - 1))

\* every point of the output list is at distance >= min_distance from c
FarFromAll(c) ==
    \A k \in 1..Len(points) :
        min_distance <= 0 \/ Dist2(c, points[k]) >= min_distance * min_distance

\* C12: in every state of the sampler where the grid exists and for every
\* candidate c in [0, width) x [0, height), is_valid_point, which looks only at
\* the occupied cells within two cells of c's cell, returns true exactly if
\* every point of the whole output list is at distance >= min_distance from c.
C12_LocalEqualsGlobal ==
    pc \in {"loop", "attempt", "done"} =>
        \A c \in InDomainCandidates :
            is_valid_point(c, grid, min_distance, grid_width, grid_height) = FarFromAll(c)

\* during an iteration that has already turned a candidate down, a candidate
\* that is too close to an output point lying two columns away from the
\* candidate's cell and to no other output point
C12_Witness ==
    /\ Sampling /\ pc = "attempt" /\ attempt >= 1
    /\ \E c \in InDomainCandidates : \E k \in 1..Len(points) :
          /\ FloorCell(points[k])[1] = FloorCell(c)[1] + 2
          /\ Dist2(c, points[k]) < min_distance * min_distance
          /\ \A n \in 1..Len(points) :
                n # k => Dist2(c, points[n]) >= min_distance * min_distance

\* the picked source point
Source == active_list[idx]

\* candidate p is accepted: appended to the output, stored in its grid cell and
\* pushed onto the active list, the source point staying where it is
AcceptStep(p) ==
    /\ pc' = "loop"
    /\ points' = Append(points, p)
    /\ grid' = [grid EXCEPT ![FloorCell(p)] = p]
    /\ active_list' = Append(active_list, p)
    /\ active_list'[idx] = Source

\* the budget is used up: the picked source point and no other leaves the
\* active list, output and grid staying as they are
RemoveStep ==
    /\ pc' = "loop"
    /\ attempt = max_attempts
    /\ Len(active_list') = Len(active_list) - 1
    /\ \A k \in 1..Len(active_list') :
          active_list'[k] = IF k < idx THEN active_list[k] ELSE active_list[k + 1]
    /\ points' = points /\ grid' = grid
    /\ \E k \in 1..Len(points) : points[k] = Source

\* a candidate is turned down and the pick goes on
RejectStep ==
    /\ pc' = "attempt"
    /\ attempt' = attempt + 1
    /\ points' = points /\ grid' = grid /\ active_list' = active_list /\ idx' = idx

\* one step of a pick
PickStep ==
    pc = "attempt" =>
        /\ \/ attempt < max_attempts /\ RejectStep
           \/ RemoveStep
           \/ /\ attempt < max_attempts
              /\ \E p \in InDomainCandidates : FarFromAll(p) /\ AcceptStep(p)
        /\ \A c \in InDomainCandidates :
              \/ AcceptStep(c)
              \/ ~FarFromAll(c)
              \/ ~Attempt(c[1] - Source[1], c[2] - Source[2])

\* C13: a pick tries at most max_attempts candidates; a step of it either
\* accepts the candidate (appended to the output, stored in its grid cell,
\* pushed onto the active list, the source staying active), which ends the pick,
\* or turns it down, which a valid candidate never is; once max_attempts
\* candidates were turned down the picked source point, and only it, leaves the
\* active list while staying in the output and the grid.  With width, height,
\* min_distance > 0 a pick can always take its next step.  The output list only
\* grows at its end.
C13_PickOutcome ==
    /\ [](pc = "attempt" => attempt \in 0..max_attempts)
    /\ [][PickStep]_vars
    /\ []((ValidConfig /\ pc = "attempt") => ENABLED (DrawAttempt \/ ExhaustStep))
    /\ [][Len(points') >= Len(points)
            /\ SubSeq(points', 1, Len(points)) = points]_vars

\* two picks have ended with a candidate accepted and a third, its budget of at
\* least one candidate used up, with the first of three active points removed
C13_Witness ==
    /\ pc = "loop" /\ ValidConfig
    /\ Len(points) = 3 /\ Len(active_list) = 2 /\ idx = 1
    /\ active_list[1] = points[2] /\ active_list[2] = points[3]
    /\ attempt = max_attempts /\ attempt >= 1

\* candidates outside [0, width) x [0, height) that a draw from the picked
\* source point can give: those just past each edge, in line with the source
\* point, and those at the largest offsets
OutsideCandidates ==
    {c \in {<<0 - 1, Source[2]>>, <<width, Source[2]>>,
            <<Source[1], 0 - 1>>, <<Source[1], height>>}
            \cup {<<Source[1] + o[1], Source[2] + o[2]>> : o \in Corners \X Corners} :
        /\ ~InDomain(c)
        /\ c[1] - Source[1] \in Offsets
        /\ c[2] - Source[2] \in Offsets}

\* C14: a pass of the for loop whose candidate lies outside
\* [0, width) x [0, height) does not hand the candidate to is_valid_point and
\* leaves the output list, the grid and the active list as they are; the pick
\* goes on with one attempt used.
C14_OutsideDiscarded ==
    [][pc = "attempt" =>
          \A c \in OutsideCandidates :
              Attempt(c[1] - Source[1], c[2] - Source[2]) =>
                  /\ ~checked'
                  /\ points' = points /\ grid' = grid /\ active_list' = active_list
                  /\ pc' = "attempt" /\ attempt' = attempt + 1]_vars

\* in a pick from a list of several points, the candidate of the last pass was
\* not handed to is_valid_point
C14_Witness ==
    /\ ValidConfig /\ pc = "attempt" /\ attempt >= 1 /\ ~checked
    /\ Len(points) >= 2 /\ Len(active_list) >= 2

\* the grid indices is_valid_point reads for candidate c
ReadCells(c) ==
    LET gx == CellIndex(c[1], min_distance)
        gy == CellIndex(c[2], min_distance)
    IN  (Max2(0, gx - 2)..(Min2(grid_width, gx + 3) - 1))
            \X (Max2(0, gy - 2)..(Min2(grid_height, gy + 3) - 1))

\* indices i, j address a cell of a grid of gw columns and gh rows
InGrid(i, j, gw, gh) == 0 <= i /\ i < gw /\ 0 <= j /\ j < gh

\* C16: with width, height, min_distance > 0 the sampler never fails with
\* IndexError: the cell written for any seed point with 0 <= x <= width and
\* 0 <= y <= height, both ends included, the cell written for any candidate
\* inside [0, width) x [0, height) and every cell is_valid_point reads for such
\* a candidate have indices 0 <= i < grid_width and 0 <= j < grid_height.
C16_IndexSafety ==
    ValidConfig =>
        /\ pc # "error" /\ error = ""
        /\ pc = "entry" =>
              \A x \in Uniform(0, width), y \in Uniform(0, height) :
                  InGrid(CellIndex(x, min_distance), CellIndex(y, min_distance),
                         CellIndex(width, min_distance) + 1,
                         CellIndex(height, min_distance) + 1)
        /\ pc \in {"loop", "attempt", "done"} =>
              /\ grid_width = CellIndex(width, min_distance) + 1
              /\ grid_height = CellIndex(height, min_distance) + 1
              /\ DOMAIN grid = (0..(grid_width - 1)) \X (0..(grid_height - 1))
              /\ \A c \in InDomainCandidates :
                    /\ InGrid(CellIndex(c[1], min_distance), CellIndex(c[2], min_distance),
                              grid_width, grid_height)
                    /\ \A r \in ReadCells(c) : InGrid(r[1], r[2], grid_width, grid_height)

\* a finished run of several points whose seed point was drawn at the closing
\* end of both the width and the height and sits in the last cell of the grid
C16_Witness ==
    /\ ValidConfig /\ pc = "done" /\ Len(points) >= 2
    /\ points[1] = <<width, height>>
    /\ grid[<<grid_width - 1, grid_height - 1>>] = points[1]

\* ---------------------------------------------------------- collision claims
\* some tracked entry is strictly closer to the query than the sum of the radii
SomeEntryWithin(position, radius, entries) ==
    \E k \in 1..Len(entries) :
        /\ radius + entries[k][2] > 0
        /\ Length2(position, entries[k][1]) <
               (radius + entries[k][2]) * (radius + entries[k][2])

\* C3: check_collision returns true exactly if some tracked entry is strictly
\* closer to the query position than the sum of the two radii; a touching pair
\* and an empty index give false.
C3_CollisionAccuracy ==
    (Len(call) = 3 /\ call[1] = "check_collision") =>
        /\ result = SomeEntryWithin(call[2], call[3], objects)
        /\ objects = <<>> => result = FALSE
        /\ (\A k \in 1..Len(objects) :
                Length2(call[2], objects[k][1]) =
                    (call[3] + objects[k][2]) * (call[3] + objects[k][2]))
              => result = FALSE

\* a query that only the second of two tracked entries overlaps, the first one
\* touching it exactly
C3_Witness ==
    /\ Len(call) = 3 /\ call[1] = "check_collision" /\ result = TRUE
    /\ Len(objects) = 2
    /\ Length2(call[2], objects[1][1]) = (call[3] + objects[1][2]) * (call[3] + objects[1][2])
    /\ call[3] + objects[1][2] > 0

\* no two tracked entries overlap
NoOverlap ==
    \A i \in 1..Len(objects) : \A j \in 1..Len(objects) :
        i < j => Length2(objects[i][1], objects[j][1]) >=
                    (objects[i][2] + objects[j][2]) * (objects[i][2] + objects[j][2])

\* C7 (original): after any sequence of add_object / check_collision / clear
\* calls, any two tracked objects are at distance >= the sum of their radii.
C7_NoOverlapAlways == NoOverlap

\* C7 (amended): if every add_object(p, r) directly follows a check_collision(p, r)
\* that returned False, any two tracked objects are at distance >= the sum of
\* their radii.
C7_NoOverlapWhenGated == gated => NoOverlap

\* two entries added after checks that returned False, touching exactly
C7_Witness ==
    /\ gated /\ Len(objects) = 2
    /\ objects[1][2] + objects[2][2] > 0
    /\ Length2(objects[1][1], objects[2][1]) =
           (objects[1][2] + objects[2][2]) * (objects[1][2] + objects[2][2])

\* C15: get_count returns the number of add_object calls made since the last
\* clear or since construction; add_object is possible for every position and
\* radius and appends exactly one entry, the earlier entries staying as they
\* are; clear empties the list; check_collision and get_count leave it
\* unchanged.
C15_Bookkeeping ==
    /\ [](Len(objects) = adds)
    /\ [](call = <<"get_count">> => result = adds)
    /\ [](Len(objects) < MaxObjects =>
            \A p \in Positions, r \in Radii : ENABLED add_object(p, r))
    /\ [][call' = <<"add_object">> =>
            \E p \in Positions, r \in Radii : objects' = Append(objects, <<p, r>>)]_vars
    /\ [][call' = <<"clear">> => objects' = <<>>]_vars
    /\ [][call'[1] \in {"check_collision", "get_count"} => objects' = objects]_vars

\* get_count returned 2 for two entries that overlap each other
C15_Witness ==
    /\ call = <<"get_count">> /\ result = 2 /\ adds = 2
    /\ ~NoOverlap

\* C9: check_collision_bbox returns true exactly if some existing entry is, on
\* each of the three axes, closer to the query centre than the sum of the two
\* half-extents; an overlap on one or two axes only, or an exact touch on an
\* axis, gives false.
C9_BoxCollision ==
    call[1] = "check_collision_bbox" =>
        result = (\E k \in 1..Len(call[4]) : \A a \in 1..3 :
                    2 * Abs(call[2][a] - call[4][k][1][a]) < call[3][a] + call[4][k][2][a])

\* a call that returned false although the second of two entries overlaps the
\* query box on the x and y axes and touches it exactly on the z axis
C9_Witness ==
    /\ call[1] = "check_collision_bbox"
    /\ Len(call[4]) = 2
    /\ result = FALSE
    /\ AxisOverlap(call[2][1], call[4][2][1][1], call[3][1], call[4][2][2][1])
    /\ AxisOverlap(call[2][2], call[4][2][1][2], call[3][2], call[4][2][2][2])
    /\ 2 * Abs(call[2][3] - call[4][2][1][3]) = call[3][3] + call[4][2][2][3]

\* the box of the object is a single point
ZeroExtent(obj) == \A u \in obj.bound_box : \A v \in obj.bound_box : u = v

\* C10: for an object whose bounding box has zero extent on every axis the
\* radius returned is a non-zero default.
C10_DegenerateDefault ==
    (call[1] \in {"get_object_radius", "_calculate_radius"} /\ ZeroExtent(call[2]))
        => result > 0

\* ------------------------------------------------------------- slope claims
\* the angle between the vector n and the up axis is at most deg degrees: its
\* cosine z / |n| is at least cos(deg)
TrueAngleAtMost(n, deg) ==
    IF deg < 0 THEN FALSE
    ELSE IF deg >= 180 THEN TRUE
    ELSE IF deg <= 90
         THEN (n.sign = 1 \/ n.z2 = 0) /\ 4 * n.z2 >= Cos4(deg) * (n.z2 + n.h2)
         ELSE (n.sign = 1 \/ n.z2 = 0) \/ 4 * n.z2 <= Cos4(deg) * (n.z2 + n.h2)

\* C8 (original): is_valid_slope(normal, max) is true exactly if the angle
\* between the normal and the up axis is at most max, for every non-zero normal.
C8_SlopeAnyNormal ==
    (call[1] = "is_valid_slope" /\ call[2].z2 + call[2].h2 > 0)
        => result = TrueAngleAtMost(call[2], call[3])

\* C8 (amended): for a normal of length 1, is_valid_slope(normal, max) is true
\* exactly if the angle between the normal and the up axis is at most max, the
\* boundary included: (0,0,1) is accepted for every max >= 0, (1,0,0) only for
\* max >= 90, and a normal at exactly the maximum angle is accepted.
C8_SlopeUnitNormal ==
    (call[1] = "is_valid_slope" /\ call[2].z2 + call[2].h2 = 4) =>
        /\ result = TrueAngleAtMost(call[2], call[3])
        /\ (call[2].z2 = 4 /\ call[2].sign = 1 /\ call[3] >= 0) => result = TRUE
        /\ call[2].z2 = 0 => result = (call[3] >= 90)
        /\ (call[3] \in 0..180 /\ call[2].z2 = Cos4(call[3])
                /\ (call[2].sign = 1) = (call[3] <= 90)) => result = TRUE

\* the unit normal at exactly 30 degrees checked against a maximum of 30
C8_Witness ==
    /\ call[1] = "is_valid_slope"
    /\ call[2] = [sign |-> 1, z2 |-> 3, h2 |-> 1]
    /\ call[3] = 30
    /\ result = TRUE

====
